---- MODULE Spec2Model ----
(***************************************************************************)
(* Model of the Aplos API client (package aplos).                          *)
(*                                                                         *)
(*   - the Date codec of types.go (Date.String, Date.UnmarshalJSON) as     *)
(*     operators over sequences of one-character strings;                  *)
(*   - the token handshake ts.Token, the construction New/newTokenSource,  *)
(*     the reuse-until-expiry token source New installs, and the three     *)
(*     read operations Transaction, Accounts, Transactions of aplos.go as  *)
(*     a state machine of concurrent callers sharing one Client.           *)
(*                                                                         *)
(* Time is in seconds.  Errors are sequences of strings: the head is the   *)
(* outermost message, the tail the wrapped cause; <<>> is the nil error.   *)
(***************************************************************************)
EXTENDS Integers, Sequences, FiniteSets, TLC

VARIABLES
    now,        \* wall clock, in seconds
    newPc,      \* position of the call of New: "start", "auth_inflight", "returned"
    client,     \* what New returned: "unbuilt", "nil" or "client"
    newErr,     \* the error New returned
    newFetch,   \* the error of the ts.Token call made by newTokenSource
    held,       \* the token held by the reuse token source
    mu,         \* the mutex of the reuse token source: NoOwner or a caller
    authReqs,   \* number of requests issued to the auth endpoint
    nOps,       \* number of client operations started
    pc,         \* per caller: "idle", "token", "auth_inflight", "data_inflight", "done"
    op,         \* per caller: the operation being run
    cancelled,  \* per caller: the context of the running operation is cancelled
    tok,        \* per caller: the token the token source returned to this call
    sent,       \* per caller: number of data requests sent by this call
    fetches,    \* per caller: number of token fetches issued by this call
    result,     \* per caller: the value the operation returned
    err,        \* per caller: the error the operation returned
    overlap,    \* per caller: another caller's fetch seen while waiting for the mutex
    d,          \* Date codec: the input date
    str,        \* Date codec: the output of Date.String
    parsed,     \* Date codec: the outcome of Date.UnmarshalJSON
    datePc      \* Date codec: "off", "input", "formatted", "parsed"

clientVars == <<now, newPc, client, newErr, newFetch, held, mu, authReqs,
                nOps, pc, op, cancelled, tok, sent, fetches, result, err,
                overlap>>
dateVars == <<d, str, parsed, datePc>>
vars == <<now, newPc, client, newErr, newFetch, held, mu, authReqs,
          nOps, pc, op, cancelled, tok, sent, fetches, result, err,
          overlap, d, str, parsed, datePc>>

----------------------------------------------------------------------------
(* Date codec (types.go)                                                   *)

NilErr == <<>>

Wrap(msg, cause) == <<msg>> \o cause

DigitChars == <<"0", "1", "2", "3", "4", "5", "6", "7", "8", "9">>

IsDigit(c) == \E i \in 1..10 : DigitChars[i] = c

DigitVal(c) == (CHOOSE i \in 1..10 : DigitChars[i] = c) - 1

RECURSIVE Decimal(_)
\* the decimal digits of n >= 0, as fmt prints them for %d
Decimal(n) == IF n < 10 THEN <<DigitChars[n + 1]>>
              ELSE Decimal(n \div 10) \o <<DigitChars[(n % 10) + 1]>>

RECURSIVE Zeros(_)
Zeros(k) == IF k <= 0 THEN <<>> ELSE <<"0">> \o Zeros(k - 1)

\* fmt's %0<width>d for n >= 0: zero-padded to at least width characters
SprintfZeroPad(n, width) == Zeros(width - Len(Decimal(n))) \o Decimal(n)

DateStringNoPad(date) ==
    Decimal(date.Year) \o <<"-">> \o Decimal(date.Month) \o <<"-">> \o Decimal(date.Day)

DateStringShortYear(date) ==
    SprintfZeroPad(date.Year, 2) \o <<"-">> \o SprintfZeroPad(date.Month, 2)
        \o <<"-">> \o SprintfZeroPad(date.Day, 2)

\* Date.String: fmt.Sprintf("%04d-%02d-%02d", d.Year, d.Month, d.Day)
DateString(date) ==
    SprintfZeroPad(date.Year, 4) \o <<"-">> \o SprintfZeroPad(date.Month, 2)
        \o <<"-">> \o SprintfZeroPad(date.Day, 2)

IsLeap(y) == (y % 4 = 0) /\ ((y % 100 # 0) \/ (y % 400 = 0))

DaysIn(m, y) == IF m = 2 THEN (IF IsLeap(y) THEN 29 ELSE 28)
                ELSE IF m \in {4, 6, 9, 11} THEN 30 ELSE 31

RECURSIVE Atoi(_)
\* value of a non-empty sequence of digit characters
Atoi(s) == IF Len(s) = 1 THEN DigitVal(s[1])
           ELSE 10 * Atoi(SubSeq(s, 1, Len(s) - 1)) + DigitVal(s[Len(s)])

AllDigits(s) == \A i \in 1..Len(s) : IsDigit(s[i])

ZeroDate == [Year |-> 0, Month |-> 0, Day |-> 0]

\* time.Parse("2006-01-02", s) followed by tmp.Date(): a year of exactly four
\* digits, "-", a month of two digits in 1..12, "-", a day of two digits valid
\* for the month, and nothing after it.
TimeParseDate(s) ==
    IF Len(s) < 4 \/ ~AllDigits(SubSeq(s, 1, 4))
    THEN [err |-> <<"parsing time: year">>, date |-> ZeroDate]
    ELSE IF Len(s) < 5 \/ s[5] # "-"
    THEN [err |-> <<"parsing time: separator">>, date |-> ZeroDate]
    ELSE IF Len(s) < 7 \/ ~AllDigits(SubSeq(s, 6, 7))
    THEN [err |-> <<"parsing time: month">>, date |-> ZeroDate]
    ELSE IF Atoi(SubSeq(s, 6, 7)) \notin 1..12
    THEN [err |-> <<"parsing time: month out of range">>, date |-> ZeroDate]
    ELSE IF Len(s) < 8 \/ s[8] # "-"
    THEN [err |-> <<"parsing time: separator">>, date |-> ZeroDate]
    ELSE IF Len(s) < 10 \/ ~AllDigits(SubSeq(s, 9, 10))
    THEN [err |-> <<"parsing time: day">>, date |-> ZeroDate]
    ELSE IF Len(s) > 10
    THEN [err |-> <<"parsing time: extra text">>, date |-> ZeroDate]
    ELSE IF Atoi(SubSeq(s, 9, 10)) \notin
                1..DaysIn(Atoi(SubSeq(s, 6, 7)), Atoi(SubSeq(s, 1, 4)))
    THEN [err |-> <<"parsing time: day out of range">>, date |-> ZeroDate]
    ELSE [err |-> NilErr,
          date |-> [Year |-> Atoi(SubSeq(s, 1, 4)),
                    Month |-> Atoi(SubSeq(s, 6, 7)),
                    Day |-> Atoi(SubSeq(s, 9, 10))]]

Quote == "\""

\* the JSON encoding of a string of digits and hyphens: the string in quotes
JSONString(s) == <<Quote>> \o s \o <<Quote>>

JSONNull == <<"n", "u", "l", "l">>

\* json.Unmarshal(data, &s) for a string target
JSONUnmarshalString(data) ==
    IF Len(data) >= 2 /\ data[1] = Quote /\ data[Len(data)] = Quote
    THEN [err |-> NilErr, s |-> SubSeq(data, 2, Len(data) - 1)]
    ELSE [err |-> <<"json: cannot unmarshal">>, s |-> <<>>]

\* Date.UnmarshalJSON applied to a target holding prev
DateUnmarshalJSON(prev, data) ==
    IF data = JSONNull THEN [err |-> NilErr, date |-> prev]
    ELSE IF JSONUnmarshalString(data).err # NilErr
    THEN [err |-> Wrap("failed to unmarshal JSON field as a string",
                       JSONUnmarshalString(data).err),
          date |-> prev]
    ELSE IF TimeParseDate(JSONUnmarshalString(data).s).err # NilErr
    THEN [err |-> Wrap("failed to parse date",
                       TimeParseDate(JSONUnmarshalString(data).s).err),
          date |-> prev]
    ELSE [err |-> NilErr, date |-> TimeParseDate(JSONUnmarshalString(data).s).date]

\* the years the Date codec is exercised on
Years == {0, 1, 4, 99, 100, 999, 1000, 1900, 1993, 2000, 2020, 9999, 10000, 12345}

\* the valid calendar dates over Years
Dates == {dt \in [Year : Years, Month : 1..12, Day : 1..31] :
            dt.Day <= DaysIn(dt.Month, dt.Year)}

NoParse == [err |-> <<"not run">>, date |-> ZeroDate]

DateOff == d = ZeroDate /\ str = <<>> /\ parsed = NoParse /\ datePc = "off"

\* d.String()
FormatStep ==
    /\ datePc = "input"
    /\ str' = DateString(d)
    /\ datePc' = "formatted"
    /\ UNCHANGED <<d, parsed>>

\* json decoding of the formatted date into a fresh Date
ParseStep ==
    /\ datePc = "formatted"
    /\ parsed' = DateUnmarshalJSON(ZeroDate, JSONString(str))
    /\ datePc' = "parsed"
    /\ UNCHANGED <<d, str>>

----------------------------------------------------------------------------
(* Bounds of the model                                                     *)

MaxOps == 2         \* client operations started in one run
MaxTime == 10       \* the clock stops advancing here
TickSeconds == 5    \* granularity of the clock

\* the concurrent callers sharing the Client: two, the least that contend for
\* the token source's mutex
Callers == {1, 2}

Ops == {"Transaction", "Accounts", "Transactions"}

----------------------------------------------------------------------------
(* Tokens and the auth handshake (aplos.go, ts.Token)                      *)

\* the zero time.Time, which Time.UnmarshalJSON leaves in place for null
ZeroTime == -1000

\* oauth2's expiryDelta: a token is taken as expired 10 s before its expiry
ExpiryDelta == 10

\* the unlocked mutex
NoOwner == 0

\* a nil *oauth2.Token
NilToken == [id |-> 0, access |-> "", expiry |-> ZeroTime]

\* offsets from the time of the response of the expiry the auth endpoint states
Lifetimes == {-5, 5, 15}

\* the "expires" member of an auth response
ExpiresFields(t) ==
    {[kind |-> "absent", at |-> 0], [kind |-> "null", at |-> 0],
     [kind |-> "bad", at |-> 0]}
        \cup {[kind |-> "time", at |-> t + l] : l \in Lifetimes}

\* the "token" member of an auth response: not base64, base64 of bytes that do
\* not decrypt, the encryption of the empty plaintext, the encryption of a token
TokenFields == {"notbase64", "badcipher", "enc_empty", "enc_tok"}

\* what http.Get on the auth endpoint can come back with at time t
AuthResponses(t) ==
    {[transportOk |-> FALSE, jsonOk |-> TRUE,
      expires |-> [kind |-> "null", at |-> 0], token |-> "enc_tok"],
     [transportOk |-> TRUE, jsonOk |-> FALSE,
      expires |-> [kind |-> "null", at |-> 0], token |-> "enc_tok"]}
        \cup [transportOk : {TRUE}, jsonOk : {TRUE},
              expires : ExpiresFields(t), token : TokenFields]

\* Time.UnmarshalJSON on a zero Time
TimeUnmarshalJSON(field) ==
    IF field.kind = "null" THEN [err |-> NilErr, time |-> ZeroTime]
    ELSE IF field.kind = "bad"
    THEN [err |-> <<"failed to parse time", "parsing time">>, time |-> ZeroTime]
    ELSE [err |-> NilErr, time |-> field.at]

\* json decoding of the auth response body into authResponse
DecodeAuthResponse(resp) ==
    IF ~resp.jsonOk THEN [err |-> <<"invalid character">>, expires |-> ZeroTime]
    ELSE IF resp.expires.kind = "absent" THEN [err |-> NilErr, expires |-> ZeroTime]
    ELSE [err |-> TimeUnmarshalJSON(resp.expires).err,
          expires |-> TimeUnmarshalJSON(resp.expires).time]

\* rsa.DecryptPKCS1v15 of the base64-decoded token member
Decrypt(field) == IF field = "enc_tok" THEN "tok" ELSE ""

\* ts.Token: the handshake.  id names the *oauth2.Token the call allocates.
TsToken(resp, id) ==
    IF ~resp.transportOk
    THEN [err |-> <<"failed to query auth endpoint", "transport">>, tok |-> NilToken]
    ELSE IF DecodeAuthResponse(resp).err # NilErr
    THEN [err |-> Wrap("failed to decode auth response", DecodeAuthResponse(resp).err),
          tok |-> NilToken]
    ELSE IF resp.token = "notbase64"
    THEN [err |-> <<"failed to base64 decode encrypted token", "illegal base64 data">>,
          tok |-> NilToken]
    ELSE IF resp.token = "badcipher"
    THEN [err |-> <<"failed to decrypt token", "decryption error">>, tok |-> NilToken]
    ELSE [err |-> NilErr,
          tok |-> [id |-> id, access |-> Decrypt(resp.token),
                   expiry |-> DecodeAuthResponse(resp).expires]]

NewTokenSourceIgnoresErr(r) == [err |-> NilErr, t |-> r.tok]

\* newTokenSource: the eager fetch; the source holds the fetched token
NewTokenSource(r) ==
    IF r.err # NilErr
    THEN [err |-> Wrap("failed to get token", r.err), t |-> NilToken]
    ELSE [err |-> NilErr, t |-> r.tok]

\* New
New(s) ==
    IF s.err # NilErr
    THEN [client |-> "nil", err |-> Wrap("failed to get access token", s.err)]
    ELSE [client |-> "client", err |-> NilErr]

----------------------------------------------------------------------------
(* The reuse token source and the transport New installs                   *)

\* Token.expired: no expiry never expires; else expired ExpiryDelta early
Expired(t, at) == t.expiry # ZeroTime /\ t.expiry - ExpiryDelta < at

ValidNoDelta(t, at) ==
    t.id # 0 /\ t.access # "" /\ ~(t.expiry # ZeroTime /\ t.expiry < at)

\* Token.Valid
Valid(t, at) == t.id # 0 /\ t.access # "" /\ ~Expired(t, at)

ReplaceKeepsOld(old, new) == old

\* the reuse token source's s.t = t after a fetch without error
Replace(old, new) == new

MuAvailableNoLock == TRUE

\* s.mu.Lock() can return
MuAvailable == mu = NoOwner

----------------------------------------------------------------------------
(* The operations of the Client                                            *)

\* message of the error wrapping a failed GET
OpMsgGet(o) == IF o = "Transactions" THEN "failed to list transactions"
               ELSE "failed to list accounts"

\* message of the error wrapping a failed decode
OpMsgDecode(o) ==
    IF o = "Transaction" THEN "failed to decode get transaction response"
    ELSE IF o = "Accounts" THEN "failed to decode list accounts response"
    ELSE "failed to decode list transactions response"

CtxCanceled == <<"context canceled">>

\* ctxhttp.Get: the error of client.Do, or the context's when it is done
CtxHttpErr(isCancelled, e) == IF isCancelled THEN CtxCanceled ELSE Wrap("Get", e)

OnGetErrorRetry(o, e) == [pc |-> "token", result |-> "nil", err |-> Wrap(OpMsgGet(o), e)]

\* if err != nil { return nil, fmt.Errorf("failed to ...: %w", err) }
OnGetError(o, e) == [pc |-> "done", result |-> "nil", err |-> Wrap(OpMsgGet(o), e)]

\* the decode of the response body and the return
OnResponse(o, body) ==
    IF body = "badjson"
    THEN [pc |-> "done", result |-> "nil",
          err |-> Wrap(OpMsgDecode(o), <<"invalid character">>)]
    ELSE [pc |-> "done", result |-> "data", err |-> NilErr]

DataResponses == {"transport", "badjson", "ok"}

----------------------------------------------------------------------------
(* State machine                                                           *)

ClientInit ==
    /\ now = 0
    /\ newPc = "start"
    /\ client = "unbuilt"
    /\ newErr = NilErr
    /\ newFetch = NilErr
    /\ held = NilToken
    /\ mu = NoOwner
    /\ authReqs = 0
    /\ nOps = 0
    /\ pc = [p \in Callers |-> "idle"]
    /\ op = [p \in Callers |-> "none"]
    /\ cancelled = [p \in Callers |-> FALSE]
    /\ tok = [p \in Callers |-> NilToken]
    /\ sent = [p \in Callers |-> 0]
    /\ fetches = [p \in Callers |-> 0]
    /\ result = [p \in Callers |-> "nil"]
    /\ err = [p \in Callers |-> NilErr]
    /\ overlap = [p \in Callers |-> "none"]

Init == ClientInit /\ DateOff

\* New calls newTokenSource, which calls t.Token(): the request goes out
NewStart ==
    /\ newPc = "start"
    /\ newPc' = "auth_inflight"
    /\ authReqs' = authReqs + 1
    /\ UNCHANGED <<now, client, newErr, newFetch, held, mu, nOps, pc, op,
                   cancelled, tok, sent, fetches, result, err, overlap>>
    /\ UNCHANGED dateVars

\* the auth endpoint answers the eager fetch; newTokenSource and New return
NewAuthRespond(resp) ==
    /\ newPc = "auth_inflight"
    /\ newPc' = "returned"
    /\ newFetch' = TsToken(resp, authReqs).err
    /\ held' = NewTokenSource(TsToken(resp, authReqs)).t
    /\ client' = New(NewTokenSource(TsToken(resp, authReqs))).client
    /\ newErr' = New(NewTokenSource(TsToken(resp, authReqs))).err
    /\ UNCHANGED <<now, mu, authReqs, nOps, pc, op, cancelled, tok, sent,
                   fetches, result, err, overlap>>
    /\ UNCHANGED dateVars

\* time passes
Tick ==
    /\ now < MaxTime
    /\ now' = now + TickSeconds
    /\ UNCHANGED <<newPc, client, newErr, newFetch, held, mu, authReqs,
                   nOps, pc, op, cancelled, tok, sent, fetches, result, err,
                   overlap>>
    /\ UNCHANGED dateVars

\* a caller calls Transaction, Accounts or Transactions on the Client:
\* ctxhttp.Get -> c.http.Do -> the oauth2 transport's RoundTrip -> Source.Token()
Call(p, o) ==
    /\ client = "client"
    /\ pc[p] \in {"idle", "done"}
    /\ nOps < MaxOps
    /\ nOps' = nOps + 1
    /\ pc' = [pc EXCEPT ![p] = "token"]
    /\ op' = [op EXCEPT ![p] = o]
    /\ cancelled' = [cancelled EXCEPT ![p] = FALSE]
    /\ tok' = [tok EXCEPT ![p] = NilToken]
    /\ sent' = [sent EXCEPT ![p] = 0]
    /\ fetches' = [fetches EXCEPT ![p] = 0]
    /\ result' = [result EXCEPT ![p] = "nil"]
    /\ err' = [err EXCEPT ![p] = NilErr]
    /\ overlap' = [overlap EXCEPT ![p] = "none"]
    /\ UNCHANGED <<now, newPc, client, newErr, newFetch, held, mu, authReqs>>
    /\ UNCHANGED dateVars

\* the operation returns r: its result and error are the caller's; the
\* request's token and context are gone with the call
Return(p, r) ==
    /\ pc' = [pc EXCEPT ![p] = r.pc]
    /\ result' = [result EXCEPT ![p] = r.result]
    /\ err' = [err EXCEPT ![p] = r.err]
    /\ tok' = [tok EXCEPT ![p] = NilToken]
    /\ cancelled' = [cancelled EXCEPT ![p] = FALSE]

\* the transport has the token t: the base transport sends the request with it,
\* unless the request's context is already done
BaseRoundTrip(p, t) ==
    IF cancelled[p]
    THEN /\ Return(p, OnGetError(op[p], CtxHttpErr(TRUE, CtxCanceled)))
         /\ UNCHANGED sent
    ELSE /\ tok' = [tok EXCEPT ![p] = t]
         /\ pc' = [pc EXCEPT ![p] = "data_inflight"]
         /\ sent' = [sent EXCEPT ![p] = sent[p] + 1]
         /\ UNCHANGED <<result, err, cancelled>>

\* the reuse token source's Token(): lock; a valid held token is returned as it
\* is (and the request sent); otherwise the fetch goes out with the lock held
GetToken(p) ==
    /\ pc[p] = "token"
    /\ MuAvailable
    /\ IF Valid(held, now)
       THEN /\ BaseRoundTrip(p, held)
            /\ UNCHANGED <<mu, authReqs, fetches, overlap>>
       ELSE /\ mu' = p
            /\ authReqs' = authReqs + 1
            /\ fetches' = [fetches EXCEPT ![p] = fetches[p] + 1]
            /\ pc' = [pc EXCEPT ![p] = "auth_inflight"]
            /\ overlap' = [q \in Callers |->
                             IF q # p /\ pc[q] = "token" THEN "inflight"
                             ELSE overlap[q]]
            /\ UNCHANGED <<tok, sent, result, err, cancelled>>
    /\ UNCHANGED <<now, newPc, client, newErr, newFetch, held, nOps, op>>
    /\ UNCHANGED dateVars

\* the auth endpoint answers a fetch made inside the reuse token source:
\* ts.Token returns, the source stores the token and unlocks; on an error
\* RoundTrip, Do, ctxhttp.Get and the operation return
AuthRespond(p, resp) ==
    /\ pc[p] = "auth_inflight"
    /\ mu' = NoOwner
    /\ IF TsToken(resp, authReqs).err # NilErr
       THEN /\ Return(p, OnGetError(op[p],
                      CtxHttpErr(cancelled[p], TsToken(resp, authReqs).err)))
            /\ overlap' = [q \in Callers |->
                             IF overlap[q] = "inflight" THEN "failed" ELSE overlap[q]]
            /\ UNCHANGED <<held, sent>>
       ELSE /\ held' = Replace(held, TsToken(resp, authReqs).tok)
            /\ BaseRoundTrip(p, TsToken(resp, authReqs).tok)
            /\ overlap' = [q \in Callers |-> "none"]
    /\ UNCHANGED <<now, newPc, client, newErr, newFetch, authReqs, nOps, op, fetches>>
    /\ UNCHANGED dateVars

\* the API endpoint answers the data request: transport error, a body that
\* does not decode, or a body that does
DataRespond(p, body) ==
    /\ pc[p] = "data_inflight"
    /\ ~cancelled[p]
    /\ IF body = "transport"
       THEN Return(p, OnGetError(op[p], CtxHttpErr(FALSE, <<"transport">>)))
       ELSE Return(p, OnResponse(op[p], body))
    /\ UNCHANGED <<now, newPc, client, newErr, newFetch, held, mu, authReqs,
                   nOps, op, sent, fetches, overlap>>
    /\ UNCHANGED dateVars

\* the caller cancels the context of its running operation (or its deadline passes)
Cancel(p) ==
    /\ pc[p] \in {"token", "auth_inflight", "data_inflight"}
    /\ ~cancelled[p]
    /\ cancelled' = [cancelled EXCEPT ![p] = TRUE]
    /\ UNCHANGED <<now, newPc, client, newErr, newFetch, held, mu, authReqs,
                   nOps, pc, op, tok, sent, fetches, result, err, overlap>>
    /\ UNCHANGED dateVars

\* the base transport sees the context done while the data request is in
\* flight, drops the request and returns the context's error
Abort(p) ==
    /\ pc[p] = "data_inflight"
    /\ cancelled[p]
    /\ Return(p, OnGetError(op[p], CtxHttpErr(TRUE, CtxCanceled)))
    /\ UNCHANGED <<now, newPc, client, newErr, newFetch, held, mu, authReqs,
                   nOps, op, sent, fetches, overlap>>
    /\ UNCHANGED dateVars

Next ==
    \/ NewStart
    \/ \E resp \in AuthResponses(now) : NewAuthRespond(resp)
    \/ Tick
    \/ \E p \in Callers, o \in Ops : Call(p, o)
    \/ \E p \in Callers : GetToken(p)
    \/ \E p \in Callers, resp \in AuthResponses(now) : AuthRespond(p, resp)
    \/ \E p \in Callers, body \in DataResponses : DataRespond(p, body)
    \/ \E p \in Callers : Cancel(p)
    \/ \E p \in Callers : Abort(p)

Spec == Init /\ [][Next]_vars

\* The client's own steps are taken when they can be: the transport goes on
\* past a free mutex and drops a data request whose context is done.  The
\* endpoints owe no answer: http.Get and the Client's transport set no timeout.
FairSpec ==
    /\ Init
    /\ [][Next]_vars
    /\ \A p \in Callers : WF_vars(GetToken(p)) /\ WF_vars(Abort(p))

----------------------------------------------------------------------------
(* The Date codec as a state machine over its inputs                       *)

InitDate == ClientInit /\ d \in Dates /\ str = <<>> /\ parsed = NoParse /\ datePc = "input"

NextDate == (FormatStep \/ ParseStep) /\ UNCHANGED clientVars

SpecDate == InitDate /\ [][NextDate]_vars

----------------------------------------------------------------------------
(* Properties                                                              *)

\* caller p's call of the token source's Token() is let past the mutex
GetStep(p) == pc[p] = "token" /\ pc'[p] # "token"

\* the fetch caller p issued inside the token source completes
RespStep(p) == pc[p] = "auth_inflight" /\ pc'[p] # "auth_inflight"

\* a step in which the token source hands a token to caller p (a call whose
\* context is done by then drops the token with the request)
Handed(p) == tok'[p] # tok[p] /\ tok'[p].id # 0

\* the expiry of t is in the past at time at
PastExpiry(t, at) == t.expiry # ZeroTime /\ t.expiry < at

\* t has an access token and no expiry, or an expiry at least 10 s ahead
Usable(t, at) ==
    /\ t.id # 0
    /\ t.access # ""
    /\ (t.expiry = ZeroTime \/ t.expiry >= at + 10)

\* C1: every data request sent by Transaction, Accounts or Transactions carries
\* a token that is not expired at the moment the request is sent.
C1_SentTokenNotExpired ==
    [][\A p \in Callers :
          sent'[p] = sent[p] + 1 => ~(tok'[p].expiry # ZeroTime /\ tok'[p].expiry <= now)]_vars

\* C2 as stated: a held token (with an access token) whose expiry is in the
\* future is returned as it is with no request to the auth endpoint, and the
\* auth endpoint is asked once at construction and then only by a get that
\* finds the held token expired.
C2_ReuseWhileExpiryInFuture ==
    [][/\ \A p \in Callers :
             GetStep(p) /\ held.access # "" /\ held.expiry > now =>
                authReqs' = authReqs /\ (cancelled[p] \/ tok'[p] = held)
       /\ authReqs' # authReqs =>
             \/ newPc = "start" /\ authReqs' = 1
             \/ \E p \in Callers :
                   GetStep(p) /\ (held.access = "" \/ held.expiry <= now)]_vars

\* C2 amended: a held token that has an access token and either no expiry or
\* an expiry at least 10 s ahead is returned as it is with no request to the
\* auth endpoint; any other held token costs exactly one request; the auth
\* endpoint is asked for nothing else but the one fetch of the construction.
C2_ReuseWhileUsable ==
    [][/\ \A p \in Callers :
             GetStep(p) =>
                IF Usable(held, now)
                THEN authReqs' = authReqs /\ (cancelled[p] \/ tok'[p] = held) /\ held' = held
                ELSE authReqs' = authReqs + 1 /\ pc'[p] = "auth_inflight"
       /\ authReqs' # authReqs =>
             \/ newPc = "start" /\ authReqs' = 1
             \/ \E p \in Callers : GetStep(p) /\ ~Usable(held, now)]_vars

\* a refresh has happened and the refreshed token is then reused by a call
\* that issues no fetch
C2_Witness ==
    \E p \in Callers :
        /\ authReqs = 2
        /\ held.id = 2
        /\ tok[p] = held
        /\ fetches[p] = 0
        /\ sent[p] = 1

\* C3 as stated: with a held token whose expiry is in the past a get issues
\* exactly one fetch, returns the token that fetch produced and stores it in
\* place of the held one; a later get that finds the refreshed token's expiry
\* still in the future issues no fetch.
C3_RefreshReturnsFetched ==
    [][\A p \in Callers :
          /\ GetStep(p) /\ PastExpiry(held, now) =>
                authReqs' = authReqs + 1 /\ pc'[p] = "auth_inflight"
          /\ RespStep(p) /\ PastExpiry(held, now) =>
                /\ authReqs' = authReqs
                /\ held'.id = authReqs
                /\ cancelled[p] \/ tok'[p] = held'
          /\ GetStep(p) /\ held.id > 1 /\ held.access # "" /\ held.expiry > now =>
                authReqs' = authReqs /\ (cancelled[p] \/ tok'[p] = held)]_vars

\* C3 amended: with a held token whose expiry is in the past a get issues
\* exactly one fetch; if the fetch succeeds its token is returned and stored in
\* place of the held one, and if it fails the call returns an error and the
\* held token stays; a later get that finds the refreshed token with an access
\* token and no expiry or an expiry at least 10 s ahead issues no fetch.
C3_RefreshOnSuccess ==
    [][\A p \in Callers :
          /\ GetStep(p) /\ PastExpiry(held, now) =>
                authReqs' = authReqs + 1 /\ pc'[p] = "auth_inflight"
          /\ RespStep(p) /\ PastExpiry(held, now) =>
                /\ authReqs' = authReqs
                /\ mu' = NoOwner
                /\ held' = held \/ held'.id = authReqs
                /\ held' # held =>
                      held'.id = authReqs /\ (cancelled[p] \/ tok'[p] = held')
                /\ held' = held =>
                      pc'[p] = "done" /\ result'[p] = "nil" /\ err'[p] # NilErr
                /\ pc'[p] = "data_inflight" => tok'[p].id = authReqs /\ held' = tok'[p]
          /\ GetStep(p) /\ held.id > 1 /\ Usable(held, now) =>
                authReqs' = authReqs /\ (cancelled[p] \/ tok'[p] = held)]_vars

\* a call has found the held token's expiry in the past and its one fetch is out
C3_Witness ==
    \E p \in Callers :
        /\ pc[p] = "auth_inflight"
        /\ fetches[p] = 1
        /\ held.id # 0
        /\ PastExpiry(held, now)

\* the callers whose fetch is in flight inside the token source
Fetching == {p \in Callers : pc[p] = "auth_inflight"}

\* C4 as stated: the check, fetch and replace of the token source are one
\* critical section; a caller that waited while another caller's fetch for the
\* held token was out never issues a fetch of its own for that token, and a
\* caller is only ever handed a whole token.
C4_OneFetchPerExpiry ==
    /\ [](Cardinality(Fetching) <= 1)
    /\ [](\A q \in Callers : pc[q] = "auth_inflight" => overlap[q] = "none")
    /\ [][\A p \in Callers : Handed(p) => tok'[p] = held \/ tok'[p] = held']_vars

\* C4 amended: the check, fetch and replace are one critical section: at most
\* one fetch is in flight at any time, the mutex is held exactly while it is,
\* a caller that waited while another caller's fetch was out issues its own
\* fetch for the same held token only after that fetch has failed, and a caller
\* is only ever handed a whole token (the held one or the one just stored).
C4_CriticalSection ==
    /\ [](Cardinality(Fetching) <= 1)
    /\ [](\A q \in Callers : (mu = q) <=> (pc[q] = "auth_inflight"))
    /\ [](\A q \in Callers :
            pc[q] = "auth_inflight" => overlap[q] \in {"none", "failed"})
    /\ [][\A p \in Callers : Handed(p) => tok'[p] = held \/ tok'[p] = held']_vars

\* one caller's fetch is in flight while the other waits for the mutex
C4_Witness ==
    \E p, q \in Callers :
        /\ p # q
        /\ pc[p] = "auth_inflight"
        /\ pc[q] = "token"
        /\ overlap[q] = "inflight"

\* the messages of the four steps at which ts.Token fails
TokenFailures ==
    {"failed to query auth endpoint", "failed to decode auth response",
     "failed to base64 decode encrypted token", "failed to decrypt token"}

\* C5: New fetches eagerly; a fetch that fails at any of its steps makes New
\* return an error wrapping the cause and no Client; a Client exists only after
\* a fetch that completed without error.
C5_EagerFetchOrNoClient ==
    /\ newPc # "returned" => client = "unbuilt" /\ held = NilToken
    /\ client # "client" => \A p \in Callers : pc[p] = "idle"
    /\ newPc = "returned" =>
          /\ authReqs >= 1
          /\ client \in {"nil", "client"}
          /\ newFetch # NilErr =>
                /\ newFetch[1] \in TokenFailures
                /\ client = "nil"
                /\ newErr = <<"failed to get access token", "failed to get token">>
                                \o newFetch
          /\ newFetch = NilErr => client = "client" /\ newErr = NilErr /\ held.id # 0

\* New has failed because the fetched token did not decrypt
C5_Witness ==
    /\ client = "nil"
    /\ newErr = <<"failed to get access token", "failed to get token",
                  "failed to decrypt token", "decryption error">>

\* C6: every token the token source hands to a caller has a non-empty access
\* token and an expiry strictly in the future at that moment.
C6_HandedTokenFresh ==
    [][\A p \in Callers :
          Handed(p) => tok'[p].access # "" /\ tok'[p].expiry > now]_vars

\* C7: once the context of an operation is cancelled while a request made for
\* it is in flight (the token fetch or the data request), the operation
\* returns the context's error and no result.
C7_CancellationHonored ==
    \A p \in Callers :
        (cancelled[p] /\ pc[p] \in {"auth_inflight", "data_inflight"})
            ~> (/\ pc[p] = "done"
                /\ result[p] = "nil"
                /\ err[p] = Wrap(OpMsgGet(op[p]), CtxCanceled))

C9_RoundTripAllYears ==
    datePc = "parsed" => parsed.err = NilErr /\ parsed.date = d

\* C9 amended: every valid calendar date with a year in 0..9999 survives
\* String then UnmarshalJSON.
C9_RoundTripFourDigitYears ==
    datePc = "parsed" /\ d.Year \in 0..9999 =>
        parsed.err = NilErr /\ parsed.date = d

\* a date below year 1000 has made the round trip
C9_Witness ==
    /\ datePc = "parsed"
    /\ d = [Year |-> 999, Month |-> 2, Day |-> 28]
    /\ parsed.err = NilErr
    /\ parsed.date = d

\* number of decimal digits of n >= 0
RECURSIVE NumDigits(_)
NumDigits(n) == IF n < 10 THEN 1 ELSE 1 + NumDigits(n \div 10)

====
